---- MODULE Spec2Model ----
(***************************************************************************)
(* Model of avocado/job.py: Job.__init__, Job._load_test_instance,         *)
(* Job.run_test, Job.test_runner, Job._make_test_runner,                   *)
(* Job._make_test_result, Job._run and Job.run.                            *)
(*                                                                         *)
(* Strings are sequences of one-character strings, so that str.split(),    *)
(* str.split('.') and os.path.abspath are computed, not assumed.           *)
(* Python's None is the record None; a str is StrVal(s), a list ListVal(l).*)
(*                                                                         *)
(* The collaborators of job.py (multiplex_config, result, test, output,    *)
(* data_dir, exceptions, status, error_codes) are its environment:         *)
(*  - a call of the multiplex Parser, of the result collaborator, of a     *)
(*    substituted runner or of a test's run_avocado returns or raises one  *)
(*    of the exceptions of Raisable;                                       *)
(*  - a test holds a reference to its job and may write Job.status while   *)
(*    it runs, which is what the test of line 204 allows for;              *)
(*  - data_dir.clean_tmp_files is a best-effort cleanup and raises nothing;*)
(*  - a call made by an except clause of Job.run (building the header from *)
(*    the exception, writing to the output manager) returns or raises.     *)
(* Exceptions that do not derive from Exception (KeyboardInterrupt,        *)
(* SystemExit) are not modelled.                                           *)
(*                                                                         *)
(* Spec is a whole call of Job.run; SpecBuilder is lines 164-197 alone, on *)
(* a wider set of inputs.                                                  *)
(***************************************************************************)
EXTENDS Integers, Sequences, FiniteSets, TLC

VARIABLES
    args,          \* Job.args: None or the argparse.Namespace given to __init__
    urlsArg,       \* the urls argument of Job.run
    muxArg,        \* the multiplex_file argument of Job.run
    muxContent,    \* the variants held by the multiplex file named by the argument
    pc,            \* position of the call of Job.run
    status,        \* Job.status
    params_list,   \* _run's params_list
    test_result,   \* the result collaborator built by _make_test_result
    failures,      \* test_runner's failures
    idx,           \* index in params_list of the next parameter set to run
    test_instance, \* the instance the last call of _load_test_instance built
    lookup,        \* what the last call of _load_test_instance found on disk
    exc,           \* the exception propagating out of _run, or None
    ret,           \* the value returned by Job.run, or None
    escaped,       \* the exception that left Job.run, or None
    output,        \* the calls made on Job.output_manager, in order
    events,        \* the calls made on the collaborators, in order
    checked        \* the instances test_runner passed to check_test, as they
                   \* were when check_test returned

vars == <<args, urlsArg, muxArg, muxContent, pc, status, params_list,
          test_result, failures, idx, test_instance, lookup, exc, ret,
          escaped, output, events, checked>>

----------------------------------------------------------------------------
(* Bounds of the model. *)

\* longest identifier list given to the parameter-set builder
MaxUrls == 2
\* longest whitespace-separated url string
MaxStrLen == 3
\* most variants held by a multiplex file
MaxVariants == 2
\* longest identifier list of a modelled run of the job
MaxRunUrls == 2

----------------------------------------------------------------------------
(* Python values. *)

None == [kind |-> "None"]

StrVal(s) == [kind |-> "str", val |-> s]

ListVal(l) == [kind |-> "list", val |-> l]

IsNone(v) == v.kind = "None"

\* all sequences over S of length at most n
SeqsUpTo(S, n) == UNION {[1..k -> S] : k \in 0..n}

RECURSIVE SplitAcc(_, _, _)
SplitAcc(s, cur, acc) ==
    IF s = <<>>
    THEN IF cur = <<>> THEN acc ELSE Append(acc, cur)
    ELSE IF Head(s) = " "
         THEN SplitAcc(Tail(s), <<>>, IF cur = <<>> THEN acc ELSE Append(acc, cur))
         ELSE SplitAcc(Tail(s), Append(cur, Head(s)), acc)

\* str.split(): the maximal runs of non-whitespace characters, in order
SplitWS(s) == SplitAcc(s, <<>>, <<>>)

RECURSIVE FirstComponent(_)
\* s.split('.')[0]: the characters before the first '.'
FirstComponent(s) ==
    IF s = <<>> \/ Head(s) = "."
    THEN <<>>
    ELSE <<Head(s)>> \o FirstComponent(Tail(s))

\* the working directory of the process
Cwd == <<"/", "w">>

\* os.path.abspath on a path without '..' components
Abspath(p) ==
    IF p = <<>> THEN Cwd
    ELSE IF Head(p) = "/" THEN p ELSE Cwd \o <<"/">> \o p

----------------------------------------------------------------------------
(* Parameter sets and the multiplex engine. *)

\* the characters of the url strings of the model
StrChars == {"a", " "}

\* the test identifiers of the model
Idents == {<<"a">>, <<"b">>}

\* the multiplex file named by the multiplex_file argument of Job.run
ArgMuxPath == <<"m">>

\* the multiplex file named by args.multiplex_file
ConfMuxPath == <<"n">>

\* BareParams with the url stored under the key name
BareParamsUnderName(url) == "name" :> url

\* the dict {'shortname': url}
BareParams(url) == "shortname" :> url

\* a variant of the multiplex engine: a dict carrying shortname and one parameter
Variant(shortname, value) == ("shortname" :> shortname) @@ ("x" :> value)

\* the variants a multiplex file of the model may hold
VariantPool ==
    { Variant(<<"a", ".", "1">>, <<"1">>),
      Variant(<<"a", ".", "2">>, <<"2">>),
      Variant(<<"b", ".", "1">>, <<"1">>) }

\* the variants held by the multiplex file named by args.multiplex_file
ConfMuxContent ==
    << Variant(<<"b", ".", "1">>, <<"1">>), Variant(<<"a", ".", "1">>, <<"1">>) >>

\* the variants held by the multiplex file at an absolute path
FileContent(path) ==
    IF path = Abspath(ArgMuxPath) THEN muxContent
    ELSE IF path = Abspath(ConfMuxPath) THEN ConfMuxContent
    ELSE <<>>

\* dict.get(key): the value, or None
Get(d, key) == IF key \in DOMAIN d THEN StrVal(d[key]) ELSE None

\* whether parser.only_filter(url) keeps the variant d: url names the first
\* component of its shortname, or the whole shortname
MatchesFilter(d, url) ==
    d["shortname"] = url \/ FirstComponent(d["shortname"]) = url

RECURSIVE SelectSeq2(_, _)
SelectSeq2(s, url) ==
    IF s = <<>> THEN <<>>
    ELSE IF MatchesFilter(Head(s), url)
         THEN <<Head(s)>> \o SelectSeq2(Tail(s), url)
         ELSE SelectSeq2(Tail(s), url)

\* [d for d in parser.get_dicts()] of a Parser(path) after only_filter(url)
FilteredDicts(path, url) == SelectSeq2(FileContent(path), url)

\* [d for d in parser.get_dicts()] of a Parser(path) without a filter
AllDicts(path) == FileContent(path)

----------------------------------------------------------------------------
(* Job._run, lines 164-197: the parameter-set builder. *)

\* lines 165-170: the identifier list _run works on, or None
NormalizeUrls(u, a) ==
    IF IsNone(u)
    THEN IF ~IsNone(a) /\ ~IsNone(a.url)
         THEN ListVal(SplitWS(a.url.val))
         ELSE None
    ELSE IF u.kind = "str" THEN ListVal(SplitWS(u.val)) ELSE u

\* lines 176-180: the absolute path of the multiplex file _run works on, or None
EffectiveMux(m, a) ==
    IF IsNone(m)
    THEN IF ~IsNone(a) /\ ~IsNone(a.multiplex_file)
         THEN StrVal(Abspath(a.multiplex_file.val))
         ELSE None
    ELSE StrVal(Abspath(m.val))

RECURSIVE UrlParamsReversed(_)
\* UrlParams with each dict inserted at the front of params_list
UrlParamsReversed(urls) ==
    IF urls = <<>> THEN <<>>
    ELSE UrlParamsReversed(Tail(urls)) \o <<BareParams(Head(urls))>>

RECURSIVE UrlParams(_)
\* lines 172-174: one bare dict per url, in order
UrlParams(urls) ==
    IF urls = <<>> THEN <<>>
    ELSE <<BareParams(Head(urls))>> \o UrlParams(Tail(urls))

\* UrlBlock without the else branch of lines 192-193
UrlBlockNoFallback(path, url) == FilteredDicts(path, url)

\* lines 186-193: what one url adds to params_list
UrlBlock(path, url) ==
    LET dcts == FilteredDicts(path, url)
    IN  IF dcts # <<>> THEN dcts ELSE <<BareParams(url)>>

RECURSIVE MuxUrlParamsOnce(_, _)
\* MuxUrlParams with a url that was already expanded skipped
MuxUrlParamsOnce(path, urls) ==
    IF urls = <<>> THEN <<>>
    ELSE LET rest == MuxUrlParamsOnce(path, Tail(urls))
         IN  IF \E i \in 1..Len(Tail(urls)) : Tail(urls)[i] = Head(urls)
             THEN rest
             ELSE UrlBlock(path, Head(urls)) \o rest

RECURSIVE MuxUrlParams(_, _)
\* lines 185-193: the blocks of the urls, appended in order
MuxUrlParams(path, urls) ==
    IF urls = <<>> THEN <<>>
    ELSE UrlBlock(path, Head(urls)) \o MuxUrlParams(path, Tail(urls))

\* lines 164-197: params_list as _run hands it to the result and the runner
BuildParamsList(u, m, a) ==
    LET urls == NormalizeUrls(u, a)
        mux  == EffectiveMux(m, a)
    IN  IF ~IsNone(mux)
        THEN IF ~IsNone(urls)
             THEN MuxUrlParams(mux.val, urls.val)
             ELSE AllDicts(mux.val)
        ELSE IF ~IsNone(urls) THEN UrlParams(urls.val) ELSE <<>>

\* lines 186 and 195: the number of Parser objects _run constructs
ParserCalls(u, m, a) ==
    LET urls == NormalizeUrls(u, a)
        mux  == EffectiveMux(m, a)
    IN  IF IsNone(mux) THEN 0
        ELSE IF IsNone(urls) THEN 1 ELSE Len(urls.val)

----------------------------------------------------------------------------
(* Exceptions, exit codes and the collaborators' vocabulary. *)

\* argparse.Namespace as Job reads it: url, multiplex_file and keep_tmp_files
\* are read directly; test_runner and test_result say whether hasattr finds them
Namespace(url, mf, keep, runner, result) ==
    [kind |-> "Namespace", url |-> url, multiplex_file |-> mf,
     keep_tmp_files |-> keep, test_runner |-> runner, test_result |-> result]

\* the exceptions a collaborator may raise: two job-level failures, which
\* declare a status, and one failure of another class
Raisable ==
    { [cls |-> "JobBaseException", jobbase |-> TRUE, status |-> "FAIL"],
      [cls |-> "JobError", jobbase |-> TRUE, status |-> "ERROR"],
      [cls |-> "IOError", jobbase |-> FALSE, status |-> "undeclared"] }

\* the exception e as it reaches the except clauses of Job.run: its traceback
\* starts at the frame of run and continues with the frames below it
Raise(e, frames) ==
    [kind |-> "exception", cls |-> e.cls, jobbase |-> e.jobbase,
     status |-> e.status, tb |-> <<"run">> \o frames]

\* error_codes.numeric_status[name], named by its key
NumericStatus(name) == name

\* status.mapping: whether a test status counts as passing
StatusMapping(st) == st = "PASS"

\* the job status a test may write through its job reference
LowerLayerStatus == "FAIL"

\* Job.debugdir
DebugDir == <<"/", "l">>

RECURSIVE Basename(_)
\* os.path.basename: what follows the last '/'
Basename(p) ==
    IF \E i \in 1..Len(p) : p[i] = "/" THEN Basename(Tail(p)) ELSE p

\* the state of the module named after a url under the test root: its
\* directory is missing, the module is missing, importing it raises
\* ImportError, it lacks the attribute named after the url, or it has it
ModuleStates == {"nodir", "nomodule", "importerror", "noattr", "found"}

\* whether path_attempt exists, and the state of the module named after the url
Lookups ==
    [path_exists : {FALSE}, module : ModuleStates]
    \cup [path_exists : {TRUE}, module : {"nodir", "found"}]

----------------------------------------------------------------------------
(* Job._load_test_instance, lines 72-100. *)

\* lines 82-85: test.DropinTest(path=..., base_logdir=..., job=self)
DropinInstance(path) ==
    [cls |-> "DropinTest", path |-> StrVal(path), name |-> Basename(path),
     base_logdir |-> DebugDir, params |-> None, job |-> "self"]

\* lines 96-99: test_class(name=url, base_logdir=..., params=params, job=self)
NamedInstance(cls, url, params) ==
    [cls |-> cls, path |-> None, name |-> url,
     base_logdir |-> DebugDir, params |-> [kind |-> "dict", val |-> params],
     job |-> "self"]

\* lines 87-99, path_attempt does not exist: the class the try statement binds,
\* or the exception that leaves it. find_module raises ImportError for a
\* missing directory or module and load_module for a failing import; getattr
\* raises AttributeError, which except ImportError does not catch, so the
\* finally clause reads the unbound test_class
DiscoverClass(url, module) ==
    CASE module \in {"nodir", "nomodule", "importerror"} ->
             [raised |-> None, cls |-> "MissingTest"]
      [] module = "noattr" ->
             [raised |-> StrVal("UnboundLocalError"), cls |-> "unbound"]
      [] OTHER ->
             [raised |-> None, cls |-> "Discovered"]

\* LoadTestInstance with discovery tried first and the path used only when
\* no class was discovered
LoadTestInstanceModuleFirst(params, fs) ==
    LET shortname == Get(params, "shortname")
    IN  IF IsNone(shortname)
        THEN [raised |-> StrVal("AttributeError"), instance |-> None,
              find_module |-> FALSE]
        ELSE LET url == FirstComponent(shortname.val)
                 path_attempt == Abspath(url)
                 found == DiscoverClass(url, fs.module)
             IN  IF ~IsNone(found.raised)
                 THEN [raised |-> found.raised, instance |-> None,
                       find_module |-> TRUE]
                 ELSE IF found.cls = "MissingTest" /\ fs.path_exists
                 THEN [raised |-> None, instance |-> DropinInstance(path_attempt),
                       find_module |-> TRUE]
                 ELSE [raised |-> None,
                       instance |-> NamedInstance(found.cls, url, params),
                       find_module |-> TRUE]

\* lines 78-100: the instance returned, or the exception raised, and whether
\* imp.find_module was called (line 89)
LoadTestInstance(params, fs) ==
    LET shortname == Get(params, "shortname")
    IN  IF IsNone(shortname)
        THEN [raised |-> StrVal("AttributeError"), instance |-> None,
              find_module |-> FALSE]
        ELSE LET url == FirstComponent(shortname.val)
                 path_attempt == Abspath(url)
             IN  IF fs.path_exists
                 THEN [raised |-> None, instance |-> DropinInstance(path_attempt),
                       find_module |-> FALSE]
                 ELSE LET found == DiscoverClass(url, fs.module)
                      IN  IF ~IsNone(found.raised)
                          THEN [raised |-> found.raised, instance |-> None,
                                find_module |-> TRUE]
                          ELSE [raised |-> None,
                                instance |-> NamedInstance(found.cls, url, params),
                                find_module |-> TRUE]

\* the statuses run_avocado may leave on an instance: the Missing-test
\* placeholder reports a failure, any other test passes or fails
FinalStatuses(instance) ==
    IF instance.cls = "MissingTest" THEN {"TEST_NA"} ELSE {"PASS", "FAIL"}

----------------------------------------------------------------------------
(* Job.run, lines 233-256: the two except clauses. *)

\* one call on the output manager
Call(method, text) == [call |-> method, text |-> text]

RECURSIVE FrameLines(_)
\* one traceback entry per frame
FrameLines(tb) ==
    IF tb = <<>> THEN <<>>
    ELSE <<[line |-> "frame", of |-> Head(tb)]>> \o FrameLines(Tail(tb))

\* traceback.format_exception(exc_type, exc_value, tb): the heading, one entry
\* per frame of tb, and the line naming the exception
FormatException(e, tb) ==
    IF tb = <<>>
    THEN <<[line |-> "exception", of |-> e.cls]>>
    ELSE <<[line |-> "heading", of |-> "Traceback"]>> \o FrameLines(tb)
         \o <<[line |-> "exception", of |-> e.cls]>>

RECURSIVE ErrorCalls(_)
\* lines 249-250: one error call per line of tb_info
ErrorCalls(lines) ==
    IF lines = <<>> THEN <<>>
    ELSE <<Call("error", Head(lines))>> \o ErrorCalls(Tail(lines))

\* lines 237-239: the calls the JobBaseException clause makes
JobFailCalls(e) ==
    <<Call("log_fail_header", [line |-> "Avocado job failed", of |-> e.cls])>>

\* CrashCalls with the traceback lines emitted after the two closing headers
CrashCallsTracebackLast(e) ==
    <<Call("log_fail_header", [line |-> "Avocado crashed", of |-> e.cls]),
      Call("log_fail_header", [line |-> "Please include the traceback info",
                               of |-> "bug report"]),
      Call("log_fail_header", [line |-> "Report bugs visiting",
                               of |-> "_NEW_ISSUE_LINK"])>>
    \o ErrorCalls(FormatException(e, Tail(e.tb)))

\* lines 243-255: the calls the Exception clause makes; exc_traceback.tb_next
\* drops the frame of run
CrashCalls(e) ==
    <<Call("log_fail_header", [line |-> "Avocado crashed", of |-> e.cls])>>
    \o ErrorCalls(FormatException(e, Tail(e.tb)))
    \o <<Call("log_fail_header", [line |-> "Please include the traceback info",
                                  of |-> "bug report"]),
         Call("log_fail_header", [line |-> "Report bugs visiting",
                                  of |-> "_NEW_ISSUE_LINK"])>>

\* the exception that leaves Job.run when a call of an except clause raises
ReportingError == [kind |-> "exception", cls |-> "UnicodeEncodeError"]

\* ExitCode with the test on failures inverted
ExitCodeInverted(fails) ==
    IF fails # <<>>
    THEN NumericStatus("AVOCADO_ALL_OK")
    ELSE NumericStatus("AVOCADO_TESTS_FAIL")

\* lines 209-213: the exit code _run returns
ExitCode(fails) ==
    IF fails = <<>>
    THEN NumericStatus("AVOCADO_ALL_OK")
    ELSE NumericStatus("AVOCADO_TESTS_FAIL")

\* CrashStatus without the assignment of line 242
CrashStatusKept(st) == st

\* line 242: the status the Exception clause writes, whatever it was
CrashStatus(st) == "ERROR"

\* StatusAfterRun without the assignment of line 205
StatusLeftAlone(st) == st

\* StatusAfterRun without the test of line 204
StatusAlwaysPass(st) == "PASS"

\* lines 204-205: the status _run leaves after the runner has returned
StatusAfterRun(st) == IF st = "RUNNING" THEN "PASS" ELSE st

\* lines 207-208: whether _run calls data_dir.clean_tmp_files
CleansTmpFiles(a) == ~IsNone(a) /\ ~a.keep_tmp_files

\* lines 132-137: whether _make_test_runner picks args.test_runner
CustomRunner(a) == ~IsNone(a) /\ a.test_runner

\* lines 139-149: the result collaborator and what _make_test_result seeds
MakeTestResultValue(a, plist) ==
    [kind |-> "result",
     cls |-> IF ~IsNone(a) /\ a.test_result
             THEN "args.test_result" ELSE "HumanTestResult",
     total |-> IF IsNone(a) THEN None ELSE [kind |-> "int", val |-> Len(plist)]]

----------------------------------------------------------------------------
(* The inputs of the model. *)

\* the url strings of the model
UrlStrings == SeqsUpTo(StrChars, MaxStrLen)

\* the urls arguments given to the parameter-set builder
BuilderUrls ==
    {None} \cup {ListVal(l) : l \in SeqsUpTo(Idents, MaxUrls)}
           \cup {StrVal(t) : t \in UrlStrings}

\* the configurations given to the parameter-set builder
BuilderArgs ==
    {None} \cup
    {Namespace(u, m, FALSE, FALSE, FALSE) :
        u \in {None} \cup {StrVal(t) : t \in UrlStrings},
        m \in {None, StrVal(ConfMuxPath)}}

\* the urls arguments of a modelled run
RunUrls == {None} \cup {ListVal(l) : l \in SeqsUpTo(Idents, MaxRunUrls)}

\* the configurations of a modelled run
RunArgs ==
    { None,
      Namespace(None, None, FALSE, FALSE, FALSE),
      Namespace(None, None, TRUE, FALSE, FALSE),
      Namespace(None, None, FALSE, TRUE, FALSE),
      Namespace(None, None, FALSE, FALSE, TRUE),
      Namespace(StrVal(<<"b", " ", "a">>), None, FALSE, FALSE, FALSE),
      Namespace(StrVal(<<" ">>), StrVal(ConfMuxPath), FALSE, FALSE, FALSE),
      Namespace(None, StrVal(ConfMuxPath), TRUE, FALSE, FALSE) }

\* the contents of the multiplex file of a modelled run
RunContents ==
    { <<>>,
      << Variant(<<"a", ".", "1">>, <<"1">>) >>,
      << Variant(<<"b", ".", "1">>, <<"1">>) >>,
      << Variant(<<"a", ".", "1">>, <<"1">>), Variant(<<"a", ".", "2">>, <<"2">>) >> }

\* the failures lists a substituted test runner may return
CustomFailures == {<<>>, <<<<"a">>>>}

\* Job.__init__, lines 46-70, and the entry of Job.run
InitJob ==
    /\ pc = "start"
    /\ status = "RUNNING"
    /\ params_list = <<>>
    /\ test_result = None
    /\ failures = <<>>
    /\ idx = 0
    /\ test_instance = None
    /\ lookup = None
    /\ exc = None
    /\ ret = None
    /\ escaped = None
    /\ output = <<>>
    /\ events = <<>>
    /\ checked = <<>>

Init ==
    /\ urlsArg \in RunUrls
    /\ args \in RunArgs
    /\ muxArg \in {None, StrVal(ArgMuxPath)}
    /\ muxContent \in RunContents
    /\ InitJob

InitBuilder ==
    /\ urlsArg \in BuilderUrls
    /\ args \in BuilderArgs
    /\ muxArg \in {None, StrVal(ArgMuxPath)}
    /\ muxContent \in SeqsUpTo(VariantPool, MaxVariants)
    /\ InitJob

----------------------------------------------------------------------------
(* The steps of Job.run. *)

inputs == <<args, urlsArg, muxArg, muxContent>>

Event(name, i) == [ev |-> name, i |-> i]

\* an exception leaves _run: the locals of _run and of test_runner are gone
\* when it reaches Job.run
Propagate(e) ==
    /\ exc' = e
    /\ pc' = "except"
    /\ params_list' = <<>>
    /\ test_result' = None
    /\ failures' = <<>>
    /\ idx' = 0
    /\ test_instance' = None
    /\ checked' = <<>>

\* lines 164-197
BuildParams ==
    /\ pc = "start"
    /\ params_list' = BuildParamsList(urlsArg, muxArg, args)
    /\ pc' = "make_result"
    /\ UNCHANGED <<checked, inputs, status, test_result, failures, idx, test_instance,
                   lookup, exc, ret, escaped, output, events>>

\* lines 186-188 and 195-196: a Parser call raises
BuildParamsRaises ==
    /\ pc = "start"
    /\ ParserCalls(urlsArg, muxArg, args) > 0
    /\ \E e \in Raisable : Propagate(Raise(e, <<"_run", "Parser">>))
    /\ UNCHANGED <<inputs, status, lookup, ret, escaped, output, events>>

\* lines 199-200
MakeTestResult ==
    /\ pc = "make_result"
    /\ test_result' = MakeTestResultValue(args, params_list)
    /\ pc' = "call_runner"
    /\ UNCHANGED <<checked, inputs, status, params_list, failures, idx, test_instance,
                   lookup, exc, ret, escaped, output, events>>

\* line 148: the constructor of the result class raises
MakeTestResultRaises ==
    /\ pc = "make_result"
    /\ \E e \in Raisable :
          Propagate(Raise(e, <<"_run", "_make_test_result", "__init__">>))
    /\ UNCHANGED <<inputs, status, lookup, ret, escaped, output, events>>

\* line 202 with args.test_runner: the substituted runner returns
CallCustomRunner ==
    /\ pc = "call_runner"
    /\ CustomRunner(args)
    /\ \E f \in CustomFailures : failures' = f
    /\ events' = Append(events, Event("args.test_runner", 0))
    /\ pc' = "after_loop"
    /\ UNCHANGED <<checked, inputs, status, params_list, test_result, idx,
                   test_instance, lookup, exc, ret, escaped, output>>

\* line 202 with args.test_runner: the substituted runner raises
CallCustomRunnerRaises ==
    /\ pc = "call_runner"
    /\ CustomRunner(args)
    /\ \E e \in Raisable : Propagate(Raise(e, <<"_run", "args.test_runner">>))
    /\ events' = Append(events, Event("args.test_runner", 0))
    /\ UNCHANGED <<inputs, status, lookup, ret, escaped, output>>

\* lines 122-123
StartTests ==
    /\ pc = "call_runner"
    /\ ~CustomRunner(args)
    /\ failures' = <<>>
    /\ events' = Append(events, Event("start_tests", 0))
    /\ idx' = 1
    /\ checked' = <<>>
    /\ pc' = "loop"
    /\ UNCHANGED <<inputs, status, params_list, test_result, test_instance,
                   lookup, exc, ret, escaped, output>>

\* line 123: start_tests raises
StartTestsRaises ==
    /\ pc = "call_runner"
    /\ ~CustomRunner(args)
    /\ \E e \in Raisable :
          Propagate(Raise(e, <<"_run", "test_runner", "start_tests">>))
    /\ events' = Append(events, Event("start_tests", 0))
    /\ UNCHANGED <<inputs, status, lookup, ret, escaped, output>>

\* what _load_test_instance found for the parameter set it was given
Found(params, fs, r) ==
    [kind |-> "lookup", params |-> params, path_exists |-> fs.path_exists,
     module |-> fs.module, raised |-> r.raised, find_module |-> r.find_module]

LoaderFrames == <<"_run", "test_runner", "run_test", "_load_test_instance">>

\* the exception of class cls raised by the interpreter itself
Builtin(cls) == [cls |-> cls, jobbase |-> FALSE, status |-> "undeclared"]

\* RecordFailure with the name of every instance appended
RecordEveryName(fails, name, st) == Append(fails, name)

\* lines 127-128: the name is appended when the status maps to not passing
RecordFailure(fails, name, st) ==
    IF StatusMapping(st) THEN fails ELSE Append(fails, name)

\* NextIndex with the loop left at the first test that did not pass
NextIndexFailFast(i, n, st) == IF StatusMapping(st) THEN i + 1 ELSE n + 1

\* lines 124-128: the for statement goes on with the next parameter set
\* whatever status the instance ended with; its body has no break or return
NextIndex(i, n, st) == i + 1

\* TestEvents with check_test called before the test is run
TestEventsCheckFirst(i) ==
    <<Event("load", i), Event("check_test", i), Event("run_avocado", i)>>

\* lines 125-126: the calls of one pass of the loop, in order:
\* _load_test_instance (line 110), run_avocado (line 111), check_test (line 126)
TestEvents(i) ==
    <<Event("load", i), Event("run_avocado", i), Event("check_test", i)>>

\* lines 124-128: one pass of the loop of test_runner, through run_test; the
\* test may write Job.status through its job reference while it runs
RunOneTest ==
    /\ pc = "loop"
    /\ idx <= Len(params_list)
    /\ \E fs \in Lookups :
         LET r == LoadTestInstance(params_list[idx], fs)
         IN  /\ IsNone(r.raised)
             /\ lookup' = Found(params_list[idx], fs, r)
             /\ \E st \in FinalStatuses(r.instance), writes \in BOOLEAN :
                  /\ test_instance' = [kind |-> "instance", obj |-> r.instance,
                                       status |-> st]
                  /\ status' = IF writes THEN LowerLayerStatus ELSE status
                  /\ failures' = RecordFailure(failures, r.instance.name, st)
                  /\ idx' = NextIndex(idx, Len(params_list), st)
                  /\ checked' = Append(checked, [name |-> r.instance.name,
                                                  status |-> st])
    /\ events' = events \o TestEvents(idx)
    /\ UNCHANGED <<inputs, pc, params_list, test_result, exc, ret, escaped,
                   output>>

\* line 110: _load_test_instance raises
LoadRaises ==
    /\ pc = "loop"
    /\ idx <= Len(params_list)
    /\ \E fs \in Lookups :
         LET r == LoadTestInstance(params_list[idx], fs)
         IN  /\ ~IsNone(r.raised)
             /\ lookup' = Found(params_list[idx], fs, r)
             /\ Propagate(Raise(Builtin(r.raised.val), LoaderFrames))
    /\ events' = events \o SubSeq(TestEvents(idx), 1, 1)
    /\ UNCHANGED <<inputs, status, ret, escaped, output>>

\* line 111: run_avocado raises
RunAvocadoRaises ==
    /\ pc = "loop"
    /\ idx <= Len(params_list)
    /\ \E fs \in Lookups :
         LET r == LoadTestInstance(params_list[idx], fs)
         IN  /\ IsNone(r.raised)
             /\ r.instance.cls # "MissingTest"
    /\ \E e \in Raisable :
          Propagate(Raise(e, <<"_run", "test_runner", "run_test", "run_avocado">>))
    /\ lookup' = None
    /\ events' = events \o SubSeq(TestEvents(idx), 1, 2)
    /\ UNCHANGED <<inputs, status, ret, escaped, output>>

\* line 126: check_test raises
CheckTestRaises ==
    /\ pc = "loop"
    /\ idx <= Len(params_list)
    /\ \E fs \in Lookups :
         LET r == LoadTestInstance(params_list[idx], fs)
         IN  /\ IsNone(r.raised)
    /\ \E e \in Raisable :
          Propagate(Raise(e, <<"_run", "test_runner", "check_test">>))
    /\ lookup' = None
    /\ events' = events \o TestEvents(idx)
    /\ UNCHANGED <<inputs, status, ret, escaped, output>>

\* lines 129-130: test_runner returns failures; its other locals are gone
EndTests ==
    /\ pc = "loop"
    /\ idx > Len(params_list)
    /\ events' = Append(events, Event("end_tests", 0))
    /\ test_instance' = None
    /\ lookup' = None
    /\ pc' = "after_loop"
    /\ UNCHANGED <<checked, inputs, status, params_list, test_result, failures, idx,
                   exc, ret, escaped, output>>

\* line 129: end_tests raises
EndTestsRaises ==
    /\ pc = "loop"
    /\ idx > Len(params_list)
    /\ \E e \in Raisable :
          Propagate(Raise(e, <<"_run", "test_runner", "end_tests">>))
    /\ lookup' = None
    /\ events' = Append(events, Event("end_tests", 0))
    /\ UNCHANGED <<inputs, status, ret, escaped, output>>

\* data_dir.clean_tmp_files(): a best-effort removal of the temporary
\* directory, which lets no exception out
CleanTmpFiles(evs) == Append(evs, Event("clean_tmp_files", 0))

\* Cleanup with the call of line 208 made twice
CleanupTwice(a, evs) ==
    IF CleansTmpFiles(a) THEN CleanTmpFiles(CleanTmpFiles(evs)) ELSE evs

\* lines 207-208: the one call of clean_tmp_files, when args allows it
Cleanup(a, evs) == IF CleansTmpFiles(a) THEN CleanTmpFiles(evs) ELSE evs

\* lines 203-213 and the return of line 234
Finish ==
    /\ pc = "after_loop"
    /\ status' = StatusAfterRun(status)
    /\ events' = Cleanup(args, events)
    /\ ret' = StrVal(ExitCode(failures))
    /\ pc' = "returned"
    /\ UNCHANGED <<checked, inputs, params_list, test_result, failures, idx,
                   test_instance, lookup, exc, escaped, output>>

\* lines 235-240
HandleJobBase ==
    /\ pc = "except"
    /\ exc.jobbase
    /\ status' = exc.status
    /\ output' = output \o JobFailCalls(exc)
    /\ ret' = StrVal(NumericStatus("AVOCADO_JOB_FAIL"))
    /\ pc' = "returned"
    /\ UNCHANGED <<checked, inputs, params_list, test_result, failures, idx,
                   test_instance, lookup, exc, escaped, events>>

\* lines 236-239: building or logging the header raises
HandleJobBaseRaises ==
    /\ pc = "except"
    /\ exc.jobbase
    /\ status' = exc.status
    /\ escaped' = ReportingError
    /\ pc' = "escaped"
    /\ UNCHANGED <<checked, inputs, params_list, test_result, failures, idx,
                   test_instance, lookup, exc, ret, output, events>>

\* lines 241-256
HandleException ==
    /\ pc = "except"
    /\ ~exc.jobbase
    /\ status' = CrashStatus(status)
    /\ output' = output \o CrashCalls(exc)
    /\ ret' = StrVal(NumericStatus("AVOCADO_CRASH"))
    /\ pc' = "returned"
    /\ UNCHANGED <<checked, inputs, params_list, test_result, failures, idx,
                   test_instance, lookup, exc, escaped, events>>

\* lines 242-255: the k-th call on the output manager raises
HandleExceptionRaises ==
    /\ pc = "except"
    /\ ~exc.jobbase
    /\ status' = CrashStatus(status)
    /\ \E k \in 1..Len(CrashCalls(exc)) :
          output' = output \o SubSeq(CrashCalls(exc), 1, k - 1)
    /\ escaped' = ReportingError
    /\ pc' = "escaped"
    /\ UNCHANGED <<checked, inputs, params_list, test_result, failures, idx,
                   test_instance, lookup, exc, ret, events>>

Next ==
    \/ BuildParams
    \/ BuildParamsRaises
    \/ MakeTestResult
    \/ MakeTestResultRaises
    \/ CallCustomRunner
    \/ CallCustomRunnerRaises
    \/ StartTests
    \/ StartTestsRaises
    \/ RunOneTest
    \/ LoadRaises
    \/ RunAvocadoRaises
    \/ CheckTestRaises
    \/ EndTests
    \/ EndTestsRaises
    \/ Finish
    \/ HandleJobBase
    \/ HandleJobBaseRaises
    \/ HandleException
    \/ HandleExceptionRaises

Spec == Init /\ [][Next]_vars

\* the parameter-set builder alone, on every input of the builder's bounds
NextBuilder == BuildParams \/ BuildParamsRaises

SpecBuilder == InitBuilder /\ [][NextBuilder]_vars

----------------------------------------------------------------------------
(* Vocabulary of the properties. *)

\* params_list is in the hands of the result collaborator and the runner
HandedOver == pc \in {"make_result", "call_runner", "loop", "after_loop"}

\* the parameter sets _run builds from the inputs of the run
BuiltList == BuildParamsList(urlsArg, muxArg, args)

\* the calls test_runner has made: every event but the cleanup of _run
LoopEvents == SelectSeq(events, LAMBDA e : e.ev # "clean_tmp_files")

\* the number of calls named ev made for the i-th parameter set
Count(ev, i) == Cardinality({k \in 1..Len(events) : events[k] = [ev |-> ev, i |-> i]})

\* whether s is a prefix of t
IsPrefix(s, t) == Len(s) <= Len(t) /\ s = SubSeq(t, 1, Len(s))

\* test_runner has started and has returned
LoopReturned ==
    /\ ~CustomRunner(args)
    /\ pc = "after_loop" \/ (pc = "returned" /\ IsNone(exc))

\* the four exit codes
ExitCodes ==
    {"AVOCADO_ALL_OK", "AVOCADO_TESTS_FAIL", "AVOCADO_JOB_FAIL", "AVOCADO_CRASH"}

\* the call of Job.run is over: it returned, or an exception left it
Ended == pc \in {"returned", "escaped"}

\* the parameter-set builder has produced params_list
Built == pc = "make_result"

\* the identifier list the builder works on, or None
GivenUrls == NormalizeUrls(urlsArg, args)

\* the multiplex source the builder works on, or None
GivenMux == EffectiveMux(muxArg, args)

\* at least one identifier is supplied
SomeIdentifier == ~IsNone(GivenUrls) /\ GivenUrls.val # <<>>

\* the variants the engine yields for the i-th identifier
Yield(i) == FilteredDicts(GivenMux.val, GivenUrls.val[i])

\* the length of the block of the i-th identifier
BlockLen(i) == IF Yield(i) = <<>> THEN 1 ELSE Len(Yield(i))

RECURSIVE Offset(_)
\* the number of parameter sets that precede the block of the i-th identifier
Offset(i) == IF i <= 1 THEN 0 ELSE Offset(i - 1) + BlockLen(i - 1)

RECURSIVE RunOf(_)
\* the parameter sets on which run_avocado was called, in call order
RunOf(evs) ==
    IF evs = <<>> THEN <<>>
    ELSE IF Head(evs).ev = "run_avocado"
         THEN <<params_list[Head(evs).i]>> \o RunOf(Tail(evs))
         ELSE RunOf(Tail(evs))

----------------------------------------------------------------------------
(* C1 *)

\* C1: once the execution loop has produced its failures list, the call of
\* Job.run returns next, with ALL_OK when the list is empty and TESTS_FAIL when
\* it holds one or more names.
C1_ExitCodeFollowsFailures ==
    [][pc = "after_loop" =>
         /\ pc' = "returned"
         /\ ret' = StrVal(IF failures = <<>>
                          THEN "AVOCADO_ALL_OK" ELSE "AVOCADO_TESTS_FAIL")]_vars

\* a run of the built-in loop that returned TESTS_FAIL with one failure
C1_Witness ==
    /\ pc = "returned"
    /\ IsNone(exc)
    /\ Len(failures) = 1
    /\ \E k \in 1..Len(events) : events[k].ev = "check_test"
    /\ ret = StrVal("AVOCADO_TESTS_FAIL")

(* C2 *)

\* C2: Job.run never raises: no exception leaves it, whatever raised inside
\* it, and what it returns is one of the four exit codes.
C2_NeverRaises ==
    /\ pc # "escaped"
    /\ IsNone(escaped)
    /\ pc = "returned" => ret.val \in ExitCodes

(* C3 *)

\* C3: whenever a JobBaseException was raised inside _run, the call of Job.run
\* ends by returning JOB_FAIL with the job's status equal to the status the
\* exception declares.
C3_JobFailureReported ==
    (Ended /\ ~IsNone(exc) /\ exc.jobbase) =>
        /\ pc = "returned"
        /\ ret = StrVal("AVOCADO_JOB_FAIL")
        /\ status = exc.status

(* C4 *)

\* C4: whenever an exception other than a JobBaseException was raised inside
\* _run, the call of Job.run ends by returning CRASH with status ERROR, and the
\* output holds the exception's class name and at least one stack-frame line.
C4_CrashReported ==
    (Ended /\ ~IsNone(exc) /\ ~exc.jobbase) =>
        /\ pc = "returned"
        /\ ret = StrVal("AVOCADO_CRASH")
        /\ status = "ERROR"
        /\ \E k \in 1..Len(output) : output[k].text.of = exc.cls
        /\ \E k \in 1..Len(output) :
              output[k].call = "error" /\ output[k].text.line = "frame"

(* C5 *)

\* C5 as stated: once the status has left RUNNING it is never written to
\* another value.
C5_WrittenOnce == [][status # "RUNNING" => status' = status]_vars

\* C5, amended: the status starts as RUNNING and has left RUNNING when the call
\* of Job.run ends; once it has left RUNNING, _run leaves it alone and only an
\* except clause of Job.run changes it again.
C5_OnlyHandlersRewrite ==
    /\ [](Ended => status # "RUNNING")
    /\ [](pc = "start" => status = "RUNNING")
    /\ [][(status # "RUNNING" /\ status' # status) =>
             (pc = "except" /\ Ended')]_vars

\* a run that returned from _run with the status a test had written
C5_Witness ==
    /\ pc = "returned"
    /\ IsNone(exc)
    /\ status = LowerLayerStatus
    /\ \E k \in 1..Len(events) : events[k].ev = "end_tests"

(* C6 *)

\* C6: without a multiplex source, given as argument or configured, the
\* parameter sets are as many as the identifiers and the i-th is exactly
\* {shortname: i-th identifier}.
C6_BareParamsPerIdentifier ==
    (Built /\ IsNone(GivenMux) /\ ~IsNone(GivenUrls)) =>
        LET ids == IF urlsArg.kind = "list" THEN urlsArg.val ELSE GivenUrls.val
        IN  /\ Len(params_list) = Len(ids)
            /\ \A i \in 1..Len(ids) :
                  /\ DOMAIN params_list[i] = {"shortname"}
                  /\ params_list[i]["shortname"] = ids[i]

\* two different identifiers, built without a multiplex source
C6_Witness ==
    /\ Built
    /\ IsNone(GivenMux)
    /\ urlsArg = ListVal(<< <<"b">>, <<"a">> >>)
    /\ Len(params_list) = 2

(* C7 *)

\* C7: with a multiplex source and at least one identifier, params_list is the
\* blocks of the identifiers one after the other in identifier order: the
\* variants the engine yields for the identifier, in the engine's order, or the
\* one bare set {shortname: identifier} when it yields none.
C7_BlocksInIdentifierOrder ==
    (Built /\ ~IsNone(GivenMux) /\ SomeIdentifier) =>
        LET n == Len(GivenUrls.val)
        IN  /\ Len(params_list) = Offset(n + 1)
            /\ \A i \in 1..n :
                  SubSeq(params_list, Offset(i) + 1, Offset(i) + BlockLen(i))
                  = IF Yield(i) = <<>>
                    THEN << [k \in {"shortname"} |-> GivenUrls.val[i]] >>
                    ELSE Yield(i)

\* an identifier without variants followed by one with two
C7_Witness ==
    /\ Built
    /\ ~IsNone(GivenMux)
    /\ SomeIdentifier
    /\ Len(GivenUrls.val) = 2
    /\ Yield(1) = <<>>
    /\ Len(Yield(2)) = 2
    /\ Yield(2)[1] # Yield(2)[2]
    /\ Len(params_list) = 3

(* C8 *)

\* C8: with a multiplex source and no identifiers, also when the identifier
\* list is the empty list or a url string that splits to nothing, the built-in
\* loop runs exactly the variants the engine produces globally, in its order.
C8_RunsGlobalVariants ==
    (/\ pc = "after_loop"
     /\ ~CustomRunner(args)
     /\ ~IsNone(GivenMux)
     /\ ~SomeIdentifier) =>
        RunOf(events) = AllDicts(GivenMux.val)

(* C9 *)

\* C9 as stated: params_list is empty only if both inputs are empty; with at
\* least one identifier or a multiplex source it holds a parameter set.
C9_NeverEmpty ==
    (Built /\ (SomeIdentifier \/ ~IsNone(GivenMux))) => params_list # <<>>

\* C9, amended: with at least one identifier, params_list holds at least one
\* parameter set; a multiplex source without identifiers does not ensure one.
C9_NonEmptyWithIdentifier ==
    (Built /\ SomeIdentifier) => params_list # <<>>

\* one identifier for which the multiplex source yields no variant
C9_Witness ==
    /\ Built
    /\ ~IsNone(GivenMux)
    /\ SomeIdentifier
    /\ Len(GivenUrls.val) = 1
    /\ Yield(1) = <<>>
    /\ FileContent(GivenMux.val) # <<>>
    /\ Len(params_list) = 1

(* C10 *)

\* C10: when the prefix is not an existing path and discovery fails (missing
\* directory, missing module, missing attribute, import error), the resolver
\* raises nothing and returns a Missing-test instance built with the prefix as
\* name, the job's log directory, the parameter set and the job.
C10_FallsBackToMissingTest ==
    (/\ ~IsNone(lookup)
     /\ ~lookup.path_exists
     /\ lookup.module \in {"nodir", "nomodule", "noattr", "importerror"}) =>
        /\ IsNone(lookup.raised)
        /\ ~IsNone(test_instance)
        /\ test_instance.obj.cls = "MissingTest"
        /\ test_instance.obj.name = FirstComponent(lookup.params["shortname"])
        /\ test_instance.obj.base_logdir = DebugDir
        /\ test_instance.obj.params = [kind |-> "dict", val |-> lookup.params]
        /\ test_instance.obj.job = "self"

(* C11 *)

C12_PathWins ==
    (~IsNone(lookup) /\ lookup.path_exists) =>
        /\ IsNone(lookup.raised)
        /\ ~lookup.find_module
        /\ ~IsNone(test_instance)
        /\ test_instance.obj.cls = "DropinTest"
        /\ test_instance.obj.path
             = StrVal(Abspath(FirstComponent(lookup.params["shortname"])))

\* the prefix of a variant's shortname names an existing path and a module of
\* the same name is discoverable
C12_Witness ==
    /\ ~IsNone(lookup)
    /\ lookup.path_exists
    /\ lookup.module = "found"
    /\ lookup.params["shortname"] = <<"a", ".", "1">>
    /\ ~IsNone(test_instance)
    /\ test_instance.obj.cls = "DropinTest"
    /\ test_instance.obj.path = StrVal(<<"/", "w", "/", "a">>)

(* C13 *)

RECURSIVE C13_Passes(_)
\* resolve, run and check of the parameter sets 1..n, one set after the other
C13_Passes(n) ==
    IF n = 0 THEN <<>>
    ELSE C13_Passes(n - 1)
         \o <<[ev |-> "load", i |-> n], [ev |-> "run_avocado", i |-> n],
              [ev |-> "check_test", i |-> n]>>

\* the complete sequence of the claim: start_tests, the passes, end_tests
C13_Complete ==
    <<[ev |-> "start_tests", i |-> 0]>> \o C13_Passes(Len(BuiltList))
    \o <<[ev |-> "end_tests", i |-> 0]>>

\* start_tests was called and returned, and the resolver raised nothing
C13_Started ==
    /\ ~CustomRunner(args)
    /\ LoopEvents # <<>>
    /\ ~IsNone(exc) =>
          exc.tb[Len(exc.tb)] \notin {"start_tests", "_load_test_instance"}

\* C13 as stated: every execution of the built-in loop in which start_tests
\* returned and every parameter set was resolved has, when the call of Job.run ends, made the complete sequence of
\* calls: start_tests once, then resolve, run and check_test per parameter set
\* in input order, then end_tests once.
C13_StartMatchedByEnd ==
    (Ended /\ C13_Started) => LoopEvents = C13_Complete

\* C13, amended: the calls of the built-in loop are at every moment a prefix
\* of the complete sequence, and they are the complete sequence whenever the
\* loop has returned; a loop that an exception leaves stops where it raised.
C13_OrderedAndCompleteOnReturn ==
    /\ ~CustomRunner(args) => IsPrefix(LoopEvents, C13_Complete)
    /\ LoopReturned => LoopEvents = C13_Complete

\* the loop returned after two tests
C13_Witness ==
    /\ LoopReturned
    /\ Len(BuiltList) = 2
    /\ Len(LoopEvents) = 8
    /\ LoopEvents[4].ev = "check_test"
    /\ LoopEvents[5] = [ev |-> "load", i |-> 2]

(* C14 *)

\* C14: the built-in loop has no fail-fast: while it runs, every parameter set
\* before the current one was resolved and run exactly once and no later one
\* was; it returns only after the last of the n parameter sets, with each of
\* them resolved and run exactly once, whatever statuses the tests ended with.
C14_NoFailFast ==
    /\ [](( ~CustomRunner(args) /\ pc \in {"loop", "after_loop"}) =>
            \A k \in 1..Len(params_list) :
                LET done == IF pc = "after_loop" \/ k < idx THEN 1 ELSE 0
                IN  Count("load", k) = done /\ Count("run_avocado", k) = done)
    /\ [][(pc = "loop" /\ pc' = "after_loop") => idx = Len(params_list) + 1]_vars
    /\ [][(pc = "loop" /\ pc' = "loop" /\ idx' # idx) => idx' = idx + 1]_vars

\* the loop returned after two tests that both ended with a non-passing status
C14_Witness ==
    /\ pc = "after_loop"
    /\ ~CustomRunner(args)
    /\ Len(params_list) = 2
    /\ Len(failures) = 2
    /\ Count("run_avocado", 1) = 1
    /\ Count("run_avocado", 2) = 1

(* C15 *)

RECURSIVE C15_NotPassing(_)
\* the names, in order, of the instances of a sequence whose status maps to
\* not passing
C15_NotPassing(insts) ==
    IF insts = <<>> THEN <<>>
    ELSE IF StatusMapping(Head(insts).status)
         THEN C15_NotPassing(Tail(insts))
         ELSE <<Head(insts).name>> \o C15_NotPassing(Tail(insts))

\* C15: while the built-in loop runs and when it returns, failures is exactly
\* the names, in execution order, of the instances run so far whose final
\* status maps to not passing: one entry per such execution and none for an
\* instance that passed; at the return every parameter set has been executed.
C15_FailuresAreNotPassing ==
    /\ (~CustomRunner(args) /\ pc \in {"loop", "after_loop"}) =>
          failures = C15_NotPassing(checked)
    /\ (~CustomRunner(args) /\ pc = "after_loop") =>
          Len(checked) = Len(params_list)

\* the first test passed and the second did not: failures holds the second
C15_Witness ==
    /\ pc = "after_loop"
    /\ ~CustomRunner(args)
    /\ Len(checked) = 2
    /\ checked[1] = [name |-> <<"a">>, status |-> "PASS"]
    /\ checked[2] = [name |-> <<"b">>, status |-> "FAIL"]
    /\ failures = << <<"b">> >>

(* C16 *)

\* C16: after the runner has returned, _run writes PASS to the status only if
\* it is still RUNNING and leaves any other status, set during the loop, as it
\* is; the exit code it returns depends on the failures list alone.
C16_PassOnlyIfRunning ==
    [][pc = "after_loop" =>
         /\ status = "RUNNING" => status' = "PASS"
         /\ status # "RUNNING" => status' = status
         /\ ret' = StrVal(IF Len(failures) = 0
                          THEN "AVOCADO_ALL_OK" ELSE "AVOCADO_TESTS_FAIL")]_vars

\* a test wrote the job status while every test passed: the status is kept
\* and the run returns ALL_OK
C16_Witness ==
    /\ pc = "returned"
    /\ IsNone(exc)
    /\ ~CustomRunner(args)
    /\ checked # <<>>
    /\ failures = <<>>
    /\ status = LowerLayerStatus
    /\ ret = StrVal("AVOCADO_ALL_OK")

(* C17 *)

\* C17: on every run in which the runner returned, the cleanup of temporary
\* files was performed exactly once unless keep_tmp_files disabled it; it was
\* performed, in particular, for a Job created with args None.
C17_CleanupUnlessDisabled ==
    (pc = "returned" /\ IsNone(exc)) =>
        Count("clean_tmp_files", 0)
        = IF ~IsNone(args) /\ args.keep_tmp_files THEN 0 ELSE 1

(* C18 *)

\* C18: the cleanup of temporary files is started at most once in a run, and
\* not at all in a run in which an exception other than a JobBaseException
\* reached Job.run: none has been started when the crash diagnostics are
\* emitted or when CRASH is returned.
C18_NoCleanupBeforeCrashReport ==
    /\ Count("clean_tmp_files", 0) <= 1
    /\ (~IsNone(exc) /\ ~exc.jobbase) => Count("clean_tmp_files", 0) = 0
    /\ (pc = "returned" /\ ret = StrVal("AVOCADO_CRASH")) =>
          Count("clean_tmp_files", 0) = 0

\* a run with the cleanup enabled crashed at the end of the loop, after a test
\* had run, and emitted its diagnostics
C18_Witness ==
    /\ pc = "returned"
    /\ ret = StrVal("AVOCADO_CRASH")
    /\ CleansTmpFiles(args)
    /\ Count("end_tests", 0) = 1
    /\ Count("run_avocado", 1) = 1
    /\ Len(output) > 3

(* C19 *)

\* the report of a crash: the header naming the class, the heading of the
\* traceback, one line per frame below run, the line naming the exception,
\* the bug-report request and the link to the issue tracker
C19_CrashReport ==
    <<[call |-> "log_fail_header",
       text |-> [line |-> "Avocado crashed", of |-> exc.cls]],
      [call |-> "error", text |-> [line |-> "heading", of |-> "Traceback"]]>>
    \o [k \in 1..(Len(exc.tb) - 1) |->
           [call |-> "error", text |-> [line |-> "frame", of |-> exc.tb[k + 1]]]]
    \o <<[call |-> "error", text |-> [line |-> "exception", of |-> exc.cls]],
         [call |-> "log_fail_header",
          text |-> [line |-> "Please include the traceback info",
                    of |-> "bug report"]],
         [call |-> "log_fail_header",
          text |-> [line |-> "Report bugs visiting", of |-> "_NEW_ISSUE_LINK"]]>>

\* the report of a job-level failure: one header naming the class
C19_JobFailReport ==
    <<[call |-> "log_fail_header",
       text |-> [line |-> "Avocado job failed", of |-> exc.cls]]>>

\* C19: nothing is emitted before an except clause runs. In the Exception
\* clause the status is ERROR before anything is emitted, what is emitted is
\* at every moment a prefix of header, stack lines, bug-report request, link,
\* and the whole of it when CRASH is returned. In the JobBaseException clause
\* exactly one header and no stack line is emitted when JOB_FAIL is returned.
C19_DiagnosticsInOrder ==
    /\ pc \notin {"returned", "escaped"} => output = <<>>
    /\ pc # "returned" => IsNone(ret)
    /\ (Ended /\ ~IsNone(exc) /\ ~exc.jobbase) =>
          /\ status = "ERROR"
          /\ IsPrefix(output, C19_CrashReport)
    /\ (pc = "returned" /\ ret = StrVal("AVOCADO_CRASH")) =>
          /\ ~IsNone(exc)
          /\ output = C19_CrashReport
    /\ (Ended /\ ~IsNone(exc) /\ exc.jobbase) =>
          IsPrefix(output, C19_JobFailReport)
    /\ (pc = "returned" /\ ret = StrVal("AVOCADO_JOB_FAIL")) =>
          /\ ~IsNone(exc)
          /\ output = C19_JobFailReport
          /\ \A k \in 1..Len(output) : output[k].call # "error"

\* a run returned CRASH for an IOError raised by check_test, three frames
\* below run
C19_Witness ==
    /\ pc = "returned"
    /\ ret = StrVal("AVOCADO_CRASH")
    /\ exc.cls = "IOError"
    /\ exc.tb = <<"run", "_run", "test_runner", "check_test">>
    /\ Len(output) = 8
    /\ output[3].text = [line |-> "frame", of |-> "_run"]

(* C20 *)

\* C20: whenever Job.run has returned, the status agrees with the exit code:
\* with CRASH it is ERROR; with ALL_OK or TESTS_FAIL it is not RUNNING, and it
\* is PASS unless a test of the loop wrote another value, also when tests
\* failed; it is RUNNING after none of these three codes.
C20_StatusAgreesWithCode ==
    pc = "returned" =>
        /\ ret = StrVal("AVOCADO_CRASH") => status = "ERROR"
        /\ ret \in {StrVal("AVOCADO_ALL_OK"), StrVal("AVOCADO_TESTS_FAIL")} =>
              /\ status # "RUNNING"
              /\ status # "PASS" =>
                    (status = LowerLayerStatus /\ checked # <<>>)
              /\ checked = <<>> => status = "PASS"
        /\ ret \in {StrVal("AVOCADO_ALL_OK"), StrVal("AVOCADO_TESTS_FAIL"),
                     StrVal("AVOCADO_CRASH")} => status # "RUNNING"

\* a run with a failing test returned TESTS_FAIL with status PASS
C20_Witness ==
    /\ pc = "returned"
    /\ ret = StrVal("AVOCADO_TESTS_FAIL")
    /\ status = "PASS"
    /\ failures # <<>>
    /\ \E k \in 1..Len(checked) : checked[k].status = "FAIL"

====
